---- MODULE Spec2Model ----
(***************************************************************************)
(* The request/response lifecycle of easyAjax, in its two shipped versions *)
(* (1.2.8 and 2.0.0), run against one page: one container holding a submit *)
(* button and named inputs, the toastr notification sink, and the window   *)
(* location.                                                               *)
(***************************************************************************)
EXTENDS Integers, Sequences, FiniteSets, TLC

\* The caller's options object names at most this many keys.
MaxOverrides == 2

Versions == {"1.2.8", "2.0.0"}

\* The two easyAjax invocations of the page script.
Calls == {"first", "second"}

\* Field names the server may report; the page may or may not hold an input of that name.
Fields == {"email", "name"}

\* Object.entries order of the errors map of a 422 body.
FieldOrder == <<"email", "name">>

\* The nodes that can be the parent (or closest form-group) of an input.
Parents == {"g1", "g2"}

VARIABLES
    version,    \* which script the page loads
    page,       \* the document: where each named input sits, the csrf meta tag, the form
    pc,         \* where each invocation stands
    options,    \* the options object of each invocation: as passed, and as the call left it
    settings,   \* the resolved settings of each invocation
    request,    \* the requestOptions handed to fetch
    resp,       \* the response the server gave
    log,        \* per invocation, the calls it made on collaborators, in order
    timer,      \* per invocation, its setTimeout timer
    signal,     \* per invocation, the AbortController its timer callback aborts
    aborted,    \* per AbortController, whether abort() was called
    unhandled,  \* per invocation, whether its promise chain ended rejected
    failure,    \* per invocation, the error its handleError was called with
    order,      \* the fetch calls ("start") and completion steps ("settle"), in the order they ran
    dom,        \* the container: the button, the inline annotations, and window.location
    modalPc,        \* where the ajaxModal call stands
    modalElement,   \* the modal: whether it is in the document, and what it holds
    opt,            \* the options ajaxModal resolved
    onLoad,         \* the onLoad argument of ajaxModal
    modalResp,      \* the response to the modal's content fetch
    modalLog,       \* what the modal's handlers did, in order
    modalUnhandled, \* whether the modal's promise chain ended rejected
    hiddenAt        \* where the ajaxModal call stood when the modal was closed

ajaxVars == <<version, page, pc, options, settings, request, resp, log, timer, signal, aborted, unhandled, failure, order, dom>>

modalVars == <<modalPc, modalElement, opt, onLoad, modalResp, modalLog, modalUnhandled, hiddenAt>>

vars == <<version, page, pc, options, settings, request, resp, log, timer, signal, aborted, unhandled, failure, order, dom,
          modalPc, modalElement, opt, onLoad, modalResp, modalLog, modalUnhandled, hiddenAt>>

----------------------------------------------------------------------------
\* Values

NoSettings == [none |-> TRUE]
NoRequest == [method |-> "none", csrf |-> "none", contentType |-> "none", body |-> "none"]

NoErrors == [f \in Fields |-> <<>>]

NoBody == [truthy |-> FALSE, url |-> "none", message |-> "none", error |-> FALSE,
           hasErrors |-> FALSE, errors |-> NoErrors]

NoResp == [status |-> 0, ctype |-> "none", jsonOk |-> FALSE, body |-> NoBody]

\* exceptions: name, whether it carries .response, its .status (0: undefined), and
\* whether it carries .responseJson, the decoded body
NoErr == [name |-> "none", response |-> FALSE, status |-> 0, responseJson |-> FALSE]
Err(name) == [name |-> name, response |-> FALSE, status |-> 0, responseJson |-> FALSE]

Ev(kind, a, b) == <<kind, a, b>>

\* The ordered lists of messages a 422 body can give for one field.
MessageLists == {<<"required">>, <<"invalid", "required">>}

\* 2xx bodies decoded from application/json: an object with optional url, message and
\* error fields, or a falsy value (null).
JsonBodies ==
    {[truthy |-> TRUE, url |-> u, message |-> m, error |-> e, hasErrors |-> FALSE, errors |-> NoErrors] :
        u \in {"none", "/done"}, m \in {"none", "Saved"}, e \in BOOLEAN}
    \cup {NoBody}

\* 2xx bodies read as text/html: a string has no url, message or error property.
TextBodies ==
    {[NoBody EXCEPT !.truthy = t] : t \in BOOLEAN}

\* Bodies of a 422 response: a message and an errors map, and bodies lacking one of them.
ValidationMessage == "The given data was invalid."

ValidationBodies ==
    {[truthy |-> TRUE, url |-> "none", message |-> ValidationMessage, error |-> FALSE,
      hasErrors |-> TRUE, errors |-> es] : es \in [Fields -> MessageLists \cup {<<>>}]}
    \cup {[truthy |-> TRUE, url |-> "none", message |-> "none", error |-> FALSE,
           hasErrors |-> TRUE, errors |-> [f \in Fields |-> <<"required">>]],
          [truthy |-> TRUE, url |-> "none", message |-> ValidationMessage, error |-> FALSE,
           hasErrors |-> FALSE, errors |-> NoErrors]}

\* What the server can answer.
Responses ==
    {[status |-> 200, ctype |-> "application/json", jsonOk |-> TRUE, body |-> b] : b \in JsonBodies}
    \cup {[status |-> 200, ctype |-> "application/json", jsonOk |-> FALSE, body |-> NoBody]}
    \cup {[status |-> 200, ctype |-> "text/html", jsonOk |-> FALSE, body |-> b] : b \in TextBodies}
    \cup {[status |-> 200, ctype |-> c, jsonOk |-> FALSE, body |-> NoBody] : c \in {"text/plain", "none"}}
    \cup {[status |-> 422, ctype |-> "application/json", jsonOk |-> TRUE, body |-> b] : b \in ValidationBodies}
    \cup {[status |-> 422, ctype |-> "application/json", jsonOk |-> FALSE, body |-> NoBody]}
    \cup {[status |-> 500, ctype |-> "application/json", jsonOk |-> j, body |-> NoBody] : j \in BOOLEAN}

\* response.ok
Ok(r) == r.status >= 200 /\ r.status <= 299

----------------------------------------------------------------------------
\* Settings

SubmitSelector == "[type='submit']"

\* toastrOptions: { closeButton: true, ..., timeOut: "3000", ... }, abridged
defaultToastrOptions == [closeButton |-> TRUE, timeOut |-> "3000"]

\* const defaults = {...}; keys the defaults leave undefined are "none" (as is null)
defaults ==
    [type |-> "GET", container |-> "document.body", disableButton |-> TRUE,
     buttonSelector |-> SubmitSelector, showToastrMsg |-> TRUE,
     toastrOptions |-> defaultToastrOptions, redirect |-> TRUE, data |-> "object",
     file |-> FALSE, formReset |-> FALSE, timeout |-> 5000,
     customErrorHandler |-> "none", customSuccessHandler |-> "none",
     headers |-> "none", success |-> "none", error |-> "none", complete |-> "none",
     beforeSend |-> "none"]

Keys == DOMAIN defaults

\* The values a caller may give a key (other than the default); every call is made on
\* the one container of the page, the document body. A headers object is given by its
\* X-CSRF-TOKEN entry: a token, the empty string, or "absent" when it has no such entry.
OptionValues(k) ==
    CASE k = "type" -> {"get", "HEAD", "POST"}
      [] k = "container" -> {}
      [] k = "timeout" -> {100}
      [] k = "toastrOptions" -> {[timeOut |-> "5000"]}
      [] k = "beforeSend" -> {"fn", "throws", "null"}
      [] k \in {"disableButton", "showToastrMsg", "redirect"} -> {FALSE}
      [] k \in {"file", "formReset"} -> {TRUE}
      [] k = "buttonSelector" -> {""}
      [] k = "data" -> {"string"}
      [] k = "headers" -> {"override-token", "", "absent"}
      [] k = "error" -> {"fn"}
      [] OTHER -> {"fn", "throws"}

NoOptions == [k \in {} |-> TRUE]

\* The options objects naming at most n keys.
RECURSIVE OptionObjects(_)
OptionObjects(n) ==
    IF n = 0 THEN {NoOptions}
    ELSE LET prev == OptionObjects(n - 1) IN
         prev \cup UNION { UNION { {(k :> v) @@ o : v \in OptionValues(k)} : k \in Keys \ DOMAIN o } : o \in prev }

\* Object.assign({}, target, source)
ObjectAssign(target, source) ==
    [k \in DOMAIN target \cup DOMAIN source |->
        IF k \in DOMAIN source THEN source[k] ELSE target[k]]

\* the method name compared as the caller wrote it
asWritten(t) == t

\* Object.assign(options, defaults): the defaults written over the caller's own object
ResolveIntoOptions(o) ==
    LET merged == ObjectAssign(o, defaults)
    IN [settings |-> [merged EXCEPT !.beforeSend =
                         IF @ \in {"none", "null"} THEN "defaultBeforeSend" ELSE @],
        options |-> merged]

\* const settings = Object.assign({}, defaults, options);
\* settings.beforeSend = settings.beforeSend || defaultBeforeSend;
\* the objects as the two statements leave them
Resolve(o) ==
    LET merged == ObjectAssign(ObjectAssign(NoOptions, defaults), o)
    IN [settings |-> [merged EXCEPT !.beforeSend =
                         IF @ \in {"none", "null"} THEN "defaultBeforeSend" ELSE @],
        options |-> o]

\* String.prototype.toUpperCase on the method names in use
toUpperCase(t) ==
    CASE t = "get" -> "GET"
      [] t = "head" -> "HEAD"
      [] t = "post" -> "POST"
      [] OTHER -> t

----------------------------------------------------------------------------
\* Effects: the part of the state one run of handlers reads and writes.
\*   dom, log (of the invocation), timer (of the invocation),
\*   err (the rejection travelling down the promise chain),
\*   failure (the error handleError was called with),
\*   pending (handleError started a body read whose callback has yet to run)

Emit(e, ev) == [e EXCEPT !.log = Append(@, ev)]

Throw(e, err) == [e EXCEPT !.err = err]

\* Calling a caller-supplied function, which may throw.
Call(e, name, fn) ==
    LET e1 == Emit(e, Ev("call", name, ""))
    IN IF fn = "throws" THEN Throw(e1, Err("CallbackError")) ELSE e1

\* toastr.success / toastr.error
Toast(e, level, text) == Emit(e, Ev("toastr", level, text))

toggleButtonLoading(e, selector, isLoading, s) ==
    IF selector = "" THEN e                       \* console.warn, return
    ELSE \* settings.container is an Element; the selector matches the submit button
         Emit([e EXCEPT !.dom.indicator = isLoading, !.dom.disabled = isLoading],
              Ev("button", IF isLoading THEN "loading" ELSE "cleared", ""))

defaultBeforeSend(e, s) ==
    IF s.disableButton /\ s.buttonSelector # ""
    THEN toggleButtonLoading(e, s.buttonSelector, TRUE, s)
    ELSE e

\* the annotations left where they are
keepValidationErrors(e) == e

clearValidationErrors(e) ==
    [e EXCEPT !.dom.feedback = [p \in Parents |-> <<>>], !.dom.invalid = {}]

\* inputElement is the input named f; its parent (1.2.8: its closest form-group) is
\* page.parentOf[f]. The first .invalid-feedback found under that node is removed,
\* the input is marked, and a new message element is appended.
displayValidationError(e, f, message) ==
    IF page.parentOf[f] = "none" THEN e          \* if (!inputElement) return
    ELSE LET p == page.parentOf[f]
             kept == IF e.dom.feedback[p] # <<>> THEN Tail(e.dom.feedback[p]) ELSE <<>>
         IN Emit([e EXCEPT !.dom.feedback[p] = Append(kept, <<f, message>>),
                           !.dom.invalid = @ \cup {f}],
                 Ev("annotate", f, message))

\* handleSuccess following the body's url whatever settings.redirect says
handleSuccessAlwaysRedirect(e, response, s) ==
    LET e1 == clearValidationErrors(e)
        e2 == IF response.url # "none"
              THEN Emit([e1 EXCEPT !.dom.location = response.url], Ev("navigate", response.url, ""))
              ELSE e1
    IN IF s.formReset /\ ~page.hasForm
       THEN Throw(e2, Err("TypeError"))
       ELSE LET e3 == IF s.formReset THEN Emit(e2, Ev("form", "reset", "")) ELSE e2
            IN IF s.showToastrMsg /\ response.message # "none"
               THEN Toast(e3, "success", response.message)
               ELSE e3

handleSuccess(e, response, s) ==
    LET e1 == clearValidationErrors(e)
        e2 == IF s.redirect /\ response.url # "none"
              THEN Emit([e1 EXCEPT !.dom.location = response.url], Ev("navigate", response.url, ""))
              ELSE e1
    IN IF s.formReset /\ ~page.hasForm
       THEN Throw(e2, Err("TypeError"))           \* querySelector('form') is null
       ELSE LET e3 == IF s.formReset THEN Emit(e2, Ev("form", "reset", "")) ELSE e2
            IN IF s.showToastrMsg /\ response.message # "none"
               THEN Toast(e3, "success", response.message)
               ELSE e3

\* processResponse calling the caller's success callbacks only on the success-UI branch
processResponseCallbackOnSuccessOnly(e, data, s) ==
    IF data.truthy /\ ~data.error
    THEN LET e1 == handleSuccess(e, data, s)
         IN IF e1.err # NoErr THEN e1
            ELSE IF s.customSuccessHandler # "none"
                 THEN Call(e1, "customSuccessHandler", s.customSuccessHandler)
                 ELSE IF s.success # "none" THEN Call(e1, "success", s.success) ELSE e1
    ELSE e

processResponse(e, data, s) ==
    LET e1 == IF data.truthy /\ ~data.error THEN handleSuccess(e, data, s) ELSE e
    IN IF e1.err # NoErr THEN e1
       ELSE IF s.customSuccessHandler # "none"
            THEN Call(e1, "customSuccessHandler", s.customSuccessHandler)
            ELSE IF s.success # "none"
                 THEN Call(e1, "success", s.success)
                 ELSE e1

\* 1.2.8
handleError1(e, error, s) ==
    LET e1 == IF error.status = 422
              THEN [e EXCEPT !.pending = TRUE]    \* error.json().then(...)
              ELSE Toast(e, "error", "An error occurred. Please try again.")
    IN IF s.customErrorHandler # "none"
       THEN Call(e1, "customErrorHandler", s.customErrorHandler)
       ELSE IF s.error # "none"
            THEN Call(e1, "error", s.error)
            ELSE e1

\* 2.0.0; r is error.response when the error carries one
handleError2(e, error, s, r) ==
    IF error.response
    THEN IF r.status = 422
         THEN [e EXCEPT !.pending = TRUE]         \* response.json().then(...).catch(...)
         ELSE Toast(e, "error", "An unexpected error occurred.")
    ELSE Toast(e, "error", "A network error occurred. Please check your connection and try again.")

\* handleError treating the timer's abort as a cancellation to pass over in silence
handleErrorIgnoreAbort(e, error, s, r) ==
    IF error.name = "AbortError" THEN e
    ELSE IF version = "1.2.8" THEN handleError1(e, error, s) ELSE handleError2(e, error, s, r)

handleError(e, error, s, r) ==
    IF version = "1.2.8" THEN handleError1(e, error, s) ELSE handleError2(e, error, s, r)

\* .catch(error => handleError(error, settings))
Catch(e, s, r) ==
    IF e.err = NoErr THEN e
    ELSE handleError([e EXCEPT !.err = NoErr, !.failure = e.err], e.err, s, r)

\* The completion step with the complete callback called before the button is restored:
\* a throwing callback then leaves the button disabled.
FinallyCompleteFirst(e, s) ==
    LET e1 == Emit([e EXCEPT !.timer = IF @ = "armed" THEN "cleared" ELSE @],
                   Ev("clearTimeout", "", ""))
        e2 == IF s.complete # "none" THEN Call([e1 EXCEPT !.err = NoErr], "complete", s.complete) ELSE e1
    IN IF e2.err # NoErr THEN e2
       ELSE [(IF s.disableButton THEN toggleButtonLoading(e2, s.buttonSelector, FALSE, s) ELSE e2)
                EXCEPT !.err = e.err]

\* .finally(() => {...}); a rejection passes through unless the callback throws
Finally(e, s) ==
    LET e1 == Emit([e EXCEPT !.timer = IF @ = "armed" THEN "cleared" ELSE @],
                   Ev("clearTimeout", "", ""))
        e2 == IF s.disableButton THEN toggleButtonLoading(e1, s.buttonSelector, FALSE, s) ELSE e1
        e3 == IF s.complete # "none" THEN Call([e2 EXCEPT !.err = NoErr], "complete", s.complete) ELSE e2
    IN IF e3.err = NoErr THEN [e3 EXCEPT !.err = e.err] ELSE e3

----------------------------------------------------------------------------
\* The run of handlers of invocation c, started from the current state.
Effect(c, tm) ==
    [dom |-> dom, log |-> log[c], timer |-> tm, err |-> NoErr, pending |-> FALSE,
     failure |-> failure[c]]

\* The callback of the body read that handleError started for a 422 response.
RECURSIVE renderErrors(_, _, _)
renderErrors(e, fs, errors) ==
    IF fs = <<>> THEN e
    ELSE LET f == Head(fs)
         IN renderErrors(IF errors[f] # <<>> THEN displayValidationError(e, f, Head(errors[f])) ELSE e,
                         Tail(fs), errors)

\* 2.0.0: response.json().then(errorJson => {...}).catch(jsonError => console.error(...))
validationCallback2(e, r) ==
    IF ~r.jsonOk THEN e
    ELSE LET e1 == Toast(e, "error",
                         IF r.body.message # "none" THEN r.body.message ELSE "Validation errors occurred.")
         IN IF r.body.hasErrors THEN renderErrors(e1, FieldOrder, r.body.errors) ELSE e1

\* 1.2.8: error.json().then(errorJson => {...}), with no catch
validationCallback1(e, r) ==
    IF ~r.jsonOk THEN Throw(e, Err("SyntaxError"))
    ELSE LET e1 == Toast(e, "error", r.body.message)
         IN IF r.body.hasErrors THEN renderErrors(e1, FieldOrder, r.body.errors)
            ELSE Throw(e1, Err("TypeError"))      \* Object.entries(undefined)

validationCallback(e, r) ==
    IF version = "1.2.8" THEN validationCallback1(e, r) ELSE validationCallback2(e, r)

\* one AbortController shared by every invocation
SharedAbortController(c) == "first"

\* new AbortController(): each invocation aborts through its own controller
AbortControllerOf(c) == c

\* The request the Fetch API is given; "raise" when building it throws.
createFormData(s) ==
    IF ~page.hasForm THEN "raise" ELSE "FormData"

requestBody(s) ==
    IF toUpperCase(s.type) # "GET" /\ toUpperCase(s.type) # "HEAD"
    THEN IF s.file THEN createFormData(s)
         ELSE IF s.data = "string" THEN "string" ELSE "json"
    ELSE "null"

\* requestOptions with the X-CSRF-TOKEN header always taken from the meta tag
requestOptionsMetaToken(s) ==
    [method |-> s.type,
     csrf |-> "meta-token",
     contentType |-> CASE requestBody(s) = "string" -> "application/x-www-form-urlencoded"
                       [] requestBody(s) = "json" -> "application/json"
                       [] OTHER -> "none",
     body |-> requestBody(s)]

\* csrf: settings.headers && settings.headers['X-CSRF-TOKEN'] ? ... : csrfToken
requestOptions(s) ==
    [method |-> s.type,
     csrf |-> IF s.headers \notin {"none", "absent", ""} THEN s.headers ELSE "meta-token",
     contentType |-> CASE requestBody(s) = "string" -> "application/x-www-form-urlencoded"
                       [] requestBody(s) = "json" -> "application/json"
                       [] OTHER -> "none",
     body |-> requestBody(s)]

\* the caller's hook followed by the default one
beforeSendThenDefault(e, s) ==
    IF s.beforeSend # "defaultBeforeSend"
    THEN LET e1 == Call(e, "beforeSend", s.beforeSend)
         IN IF e1.err # NoErr THEN e1 ELSE defaultBeforeSend(e1, s)
    ELSE defaultBeforeSend(e, s)

\* settings.beforeSend(settings), which is defaultBeforeSend when the caller gave none
beforeSend(e, s) ==
    IF s.beforeSend # "defaultBeforeSend"
    THEN Call(e, "beforeSend", s.beforeSend)
    ELSE defaultBeforeSend(e, s)

\* The options objects the page script passes: when the page script makes one call
\* it names up to MaxOverrides keys, when it makes two, both leave every key to its default.
CallerOptions == OptionObjects(MaxOverrides)

Options ==
    IF \E c \in Calls : pc[c] = "unused"
    THEN CallerOptions
    ELSE {NoOptions}

\* easyAjax(options), up to and including the call of fetch
Start(i, o) ==
    /\ pc[i] = "idle"
    /\ LET s == Resolve(o).settings
           e0 == clearValidationErrors(Effect(i, timer[i]))
           raises == \/ ~page.csrfMeta                  \* querySelector('meta...') is null
                     \/ requestBody(s) = "raise"
           e1 == IF raises THEN e0 ELSE beforeSend(e0, s)
           issued == ~raises /\ e1.err = NoErr
           e2 == IF issued
                 THEN Emit(Emit(e1, Ev("setTimeout", "", "")), Ev("fetch", "", ""))
                 ELSE e1
       IN /\ settings' = [settings EXCEPT ![i] = s]
          /\ options' = [options EXCEPT ![i] = [passed |-> o, after |-> Resolve(o).options]]
          /\ dom' = e2.dom
          /\ log' = [log EXCEPT ![i] = e2.log]
          /\ pc' = [pc EXCEPT ![i] = IF issued THEN "fetching" ELSE "raised"]
          /\ request' = [request EXCEPT ![i] = IF issued THEN requestOptions(s) ELSE @]
          /\ timer' = [timer EXCEPT ![i] = IF issued THEN "armed" ELSE @]
          /\ signal' = [signal EXCEPT ![i] = IF issued THEN AbortControllerOf(i) ELSE @]
          /\ order' = IF issued THEN Append(order, <<"start", i>>) ELSE order
    /\ UNCHANGED <<version, page, resp, aborted, unhandled, failure>>
    /\ UNCHANGED modalVars

\* The rest of the chain once a stage has produced e: catch, then finally.
Settle(e, s, r) == Finally(Catch(e, s, r), s)

\* The state after invocation c ran its handlers to e.
Commit(c, e, tm) ==
    /\ dom' = e.dom
    /\ log' = [log EXCEPT ![c] = e.log]
    /\ timer' = [tm EXCEPT ![c] = e.timer]
    /\ pc' = [pc EXCEPT ![c] = IF e.pending THEN "errjson" ELSE "done"]
    /\ unhandled' = [unhandled EXCEPT ![c] = e.err # NoErr]
    /\ failure' = [failure EXCEPT ![c] = e.failure]
    /\ order' = Append(order, <<"settle", c>>)

\* processContentType, up to its first await: the stage it stops at
\*   "read": a body read was started; otherwise the error it throws
contentTypeStage(r) ==
    CASE r.ctype = "none" -> "TypeError"           \* null.includes
      [] r.ctype = "application/json" -> "read"
      [] r.ctype = "text/html" -> "read"
      [] OTHER -> "Unsupported"

\* fetch resolves with response r: the then-callbacks run up to the first body read
FetchResolve(i, r) ==
    /\ pc[i] = "fetching"
    /\ resp' = [resp EXCEPT ![i] = r]
    /\ LET s == settings[i]
           e == Effect(i, timer[i])
       IN IF ~Ok(r)
          THEN IF version = "2.0.0"
               THEN \* throw { response }
                    Commit(i, Settle(Throw(e, [name |-> "object", response |-> TRUE, status |-> 0, responseJson |-> FALSE]), s, r), timer)
               ELSE \* validateResponse: return response.json().then(...)
                    /\ pc' = [pc EXCEPT ![i] = "decoding"]
                    /\ UNCHANGED <<dom, log, timer, unhandled, failure, order>>
          ELSE IF contentTypeStage(r) = "read"
               THEN /\ pc' = [pc EXCEPT ![i] = "decoding"]
                    /\ UNCHANGED <<dom, log, timer, unhandled, failure, order>>
               ELSE Commit(i, Settle(Throw(e, Err(contentTypeStage(r))), s, r), timer)
    /\ UNCHANGED <<version, page, options, settings, request, signal, aborted>>
    /\ UNCHANGED modalVars

\* fetch rejects: DNS failure, connection reset
FetchReject(i) ==
    /\ pc[i] = "fetching"
    /\ Commit(i, Settle(Throw(Effect(i, timer[i]), Err("TypeError")), settings[i], NoResp), timer)
    /\ UNCHANGED <<version, page, options, settings, request, resp, signal, aborted>>
    /\ UNCHANGED modalVars

\* the body read completes: response.json() or response.text() settles
BodyRead(i) ==
    /\ pc[i] = "decoding"
    /\ LET s == settings[i]
           r == resp[i]
           e == Effect(i, timer[i])
           staged == IF ~Ok(r)
                     THEN \* 1.2.8 validateResponse: throw error (with responseJson), or json() rejects
                          Throw(e, IF r.jsonOk THEN [Err("Error") EXCEPT !.responseJson = TRUE]
                                            ELSE Err("SyntaxError"))
                     ELSE IF r.ctype = "application/json" /\ ~r.jsonOk
                          THEN Throw(e, Err("SyntaxError"))
                          ELSE processResponse(e, r.body, s)
       IN Commit(i, Settle(staged, s, r), timer)
    /\ UNCHANGED <<version, page, options, settings, request, resp, signal, aborted>>
    /\ UNCHANGED modalVars

\* the body read that handleError started for a 422 completes
ErrorBodyRead(i) ==
    /\ pc[i] = "errjson"
    /\ LET e == validationCallback(Effect(i, timer[i]), resp[i])
       IN /\ dom' = e.dom
          /\ log' = [log EXCEPT ![i] = e.log]
          /\ pc' = [pc EXCEPT ![i] = "done"]
          /\ unhandled' = [unhandled EXCEPT ![i] = @ \/ e.err # NoErr]
    /\ UNCHANGED <<version, page, options, settings, request, resp, timer, signal, aborted, failure, order>>
    /\ UNCHANGED modalVars

\* the timer of invocation i fires: () => abortController.abort()
Timeout(i) ==
    /\ timer[i] = "armed"
    /\ LET c == signal[i]
           tm == [timer EXCEPT ![i] = "fired"]
       IN /\ aborted' = [aborted EXCEPT ![c] = TRUE]
          /\ IF pc[c] \in {"fetching", "decoding"}
             THEN Commit(c, Settle(Throw(Effect(c, tm[c]), Err("AbortError")), settings[c], NoResp), tm)
             ELSE /\ timer' = tm
                  /\ UNCHANGED <<dom, log, pc, unhandled, failure, order>>
    /\ UNCHANGED <<version, page, options, settings, request, resp, signal>>
    /\ UNCHANGED modalVars

----------------------------------------------------------------------------
\* ajaxModal: the dialog that loads its content with fetch

\* The fragments the server can return: whether the html holds a form, an element
\* with data-bs-dismiss="modal", and script tags.
Htmls == [form : BOOLEAN, closeButton : BOOLEAN, scripts : BOOLEAN]

NoHtml == [form |-> FALSE, closeButton |-> FALSE, scripts |-> FALSE]

\* What modalElement holds: nothing yet ("none"), the loader inside .modal-content,
\* the fetched html inside .modal-content, the error markup inside .modal-content, or
\* no child at all ("emptied": innerHTML = '', so no .modal-content either).
Holds(kind, html) == [kind |-> kind, html |-> html]

ModalResponses ==
    {[ok |-> TRUE, html |-> h] : h \in Htmls} \cup {[ok |-> FALSE, html |-> NoHtml]}

NoModalResp == [ok |-> FALSE, html |-> NoHtml]

ModalIdle ==
    /\ modalPc = "idle"
    /\ modalElement = [attached |-> FALSE, content |-> Holds("none", NoHtml)]
    /\ opt = [formReset |-> FALSE]
    /\ onLoad = "none"
    /\ modalResp = NoModalResp
    /\ modalLog = <<>>
    /\ modalUnhandled = FALSE
    /\ hiddenAt = "none"

\* ajaxModal(selector, url, size, attr_id_value, onLoad, options), up to the end of the call
ajaxModal(fn, formReset) ==
    /\ modalPc = "idle"
    /\ opt' = [formReset |-> formReset]
    /\ onLoad' = fn
    /\ modalElement' = [attached |-> TRUE, content |-> Holds("loader", NoHtml)]
    /\ modalLog' = Append(modalLog, "show")
    /\ modalPc' = "fetching"
    /\ UNCHANGED <<modalResp, modalUnhandled, hiddenAt>>
    /\ UNCHANGED ajaxVars

\* .catch(error => { modalElement.querySelector('.modal-content').innerHTML = ... })
\* querySelector gives null once the modal was emptied: the handler throws
ModalCatch(lg) ==
    /\ modalLog' = lg
    /\ IF modalElement.content.kind = "emptied"
       THEN /\ modalUnhandled' = TRUE
            /\ modalPc' = "rejected"
            /\ UNCHANGED modalElement
       ELSE /\ modalElement' = [modalElement EXCEPT !.content = Holds("error", NoHtml)]
            /\ modalPc' = "failed"
            /\ UNCHANGED modalUnhandled

\* fetch resolves: .then(response => { if (!response.ok) throw ...; return response.text() })
ModalFetchResolve(r) ==
    /\ modalPc = "fetching"
    /\ modalResp' = r
    /\ IF r.ok
       THEN /\ modalPc' = "reading"
            /\ UNCHANGED <<modalElement, modalLog, modalUnhandled>>
       ELSE ModalCatch(modalLog)
    /\ UNCHANGED <<opt, onLoad, hiddenAt>>
    /\ UNCHANGED ajaxVars

\* fetch rejects, or the read of the body does
ModalFetchReject ==
    /\ modalPc \in {"fetching", "reading"}
    /\ ModalCatch(modalLog)
    /\ UNCHANGED <<opt, onLoad, modalResp, hiddenAt>>
    /\ UNCHANGED ajaxVars

\* response.text() settles: .then(html => {...}), and .catch when that handler throws
ModalLoad ==
    /\ modalPc = "reading"
    /\ LET html == modalResp.html
           l1 == IF html.form THEN Append(modalLog, "modalFormLoaded") ELSE modalLog
           l2 == IF html.scripts THEN Append(l1, "script") ELSE l1
           l3 == IF onLoad # "none" THEN Append(l2, "onLoad") ELSE l2
       IN IF modalElement.content.kind = "emptied"
          THEN \* querySelector('.modal-content') is null: TypeError, on to .catch
               ModalCatch(modalLog)
          ELSE IF onLoad = "throws"
               THEN \* the html was injected, then onLoad threw: .catch overwrites it
                    ModalCatch(l3)
               ELSE /\ modalElement' = [modalElement EXCEPT !.content = Holds("html", html)]
                    /\ modalLog' = l3
                    /\ modalPc' = "loaded"
                    /\ UNCHANGED modalUnhandled
    /\ UNCHANGED <<opt, onLoad, modalResp, hiddenAt>>
    /\ UNCHANGED ajaxVars

\* the modal is closed: modalElement.addEventListener('hidden.bs.modal', function () {...})
ModalHidden ==
    /\ modalElement.attached
    /\ LET form == modalElement.content.kind = "html" /\ modalElement.content.html.form
       IN modalLog' = IF opt.formReset /\ form THEN Append(modalLog, "reset") ELSE modalLog
    /\ modalElement' = [attached |-> FALSE, content |-> Holds("emptied", NoHtml)]
    /\ hiddenAt' = modalPc
    /\ UNCHANGED <<modalPc, opt, onLoad, modalResp, modalUnhandled>>
    /\ UNCHANGED ajaxVars

----------------------------------------------------------------------------
\* The pages: where the inputs named after Fields sit (or "none": no such input),
\* whether the csrf-token meta tag and a form element exist.
Layouts ==
    {[email |-> "g1", name |-> "g2"],      \* each input in its own group
     [email |-> "g1", name |-> "g1"],      \* both inputs under one parent
     [email |-> "g1", name |-> "none"]}    \* no input named "name"

Pages ==
    [parentOf : Layouts, csrfMeta : BOOLEAN, hasForm : BOOLEAN]

InitDom ==
    [disabled |-> FALSE, indicator |-> FALSE, feedback |-> [p \in Parents |-> <<>>],
     invalid |-> {}, location |-> "here"]

InitWith(started) ==
    /\ version \in Versions
    /\ page \in Pages
    /\ pc = [c \in Calls |-> IF c \in started THEN "idle" ELSE "unused"]
    /\ options = [c \in Calls |-> [passed |-> NoOptions, after |-> NoOptions]]
    /\ settings = [c \in Calls |-> NoSettings]
    /\ request = [c \in Calls |-> NoRequest]
    /\ resp = [c \in Calls |-> NoResp]
    /\ log = [c \in Calls |-> <<>>]
    /\ timer = [c \in Calls |-> "none"]
    /\ signal = [c \in Calls |-> "none"]
    /\ aborted = [c \in Calls |-> FALSE]
    /\ unhandled = [c \in Calls |-> FALSE]
    /\ failure = [c \in Calls |-> NoErr]
    /\ order = <<>>
    /\ dom = InitDom
    /\ ModalIdle

\* The page script calls easyAjax once.
Init == InitWith({"first"})

\* The page script calls easyAjax twice, the second call at any moment.
InitRace == InitWith(Calls)

Next ==
    \/ \E i \in Calls : pc[i] = "idle" /\ \E o \in Options : Start(i, o)
    \/ \E i \in Calls : pc[i] = "fetching" /\ \E r \in Responses : FetchResolve(i, r)
    \/ \E i \in Calls : FetchReject(i)
    \/ \E i \in Calls : BodyRead(i)
    \/ \E i \in Calls : ErrorBodyRead(i)
    \/ \E i \in Calls : Timeout(i)

Spec == Init /\ [][Next]_vars

SpecRace == InitRace /\ [][Next]_vars

\* The page script calls easyAjax twice, one request at a time: the second call is made
\* once everything the first started has run.
Quiet(i) == \A c \in Calls \ {i} : pc[c] \in {"idle", "raised", "done"}

NextInTurn ==
    \/ \E i \in Calls : pc[i] = "idle" /\ Quiet(i) /\ \E o \in Options : Start(i, o)
    \/ \E i \in Calls : pc[i] = "fetching" /\ \E r \in Responses : FetchResolve(i, r)
    \/ \E i \in Calls : FetchReject(i)
    \/ \E i \in Calls : BodyRead(i)
    \/ \E i \in Calls : ErrorBodyRead(i)
    \/ \E i \in Calls : Timeout(i)

SpecInTurn == InitRace /\ [][NextInTurn]_vars

\* The page script calls ajaxModal once and easyAjax not at all.
InitModal ==
    /\ InitWith({})
    /\ version = "2.0.0"
    /\ page = [parentOf |-> [email |-> "g1", name |-> "g2"], csrfMeta |-> TRUE, hasForm |-> TRUE]

NextModal ==
    \/ \E fn \in {"none", "fn", "throws"}, formReset \in BOOLEAN : ajaxModal(fn, formReset)
    \/ \E r \in ModalResponses : ModalFetchResolve(r)
    \/ ModalFetchReject
    \/ ModalLoad
    \/ ModalHidden

SpecModal == InitModal /\ [][NextModal]_vars

----------------------------------------------------------------------------
\* Reading the logs

Count(l, ev) == Cardinality({k \in DOMAIN l : l[k] = ev})

KindCount(l, kind) == Cardinality({k \in DOMAIN l : l[k][1] = kind})

Called(l, name) == Count(l, Ev("call", name, ""))

\* the positions in l of the events of the given kinds
Positions(l, kinds) == {k \in DOMAIN l : l[k][1] \in kinds}

ButtonCleared == Ev("button", "cleared", "")

\* The completion step (.finally) of invocation i has run.
Completed(i) == pc[i] \in {"errjson", "done"}

\* The timer of i fired and aborted its request.
TimedOut(i) == timer[i] = "fired"

\* The four failure branches: HTTP 422, other non-2xx, unsupported content type of a
\* 2xx response, transport failure or timeout.
FailureOutcome(i) ==
    /\ pc[i] = "done"
    /\ \/ TimedOut(i)
       \/ resp[i] = NoResp
       \/ ~Ok(resp[i])
       \/ resp[i].ctype \notin {"application/json", "text/html"}

\* i settled as an HTTP 422 whose JSON body has a message and an errors map.
ValidationOutcome(i) ==
    /\ pc[i] = "done"
    /\ ~TimedOut(i)
    /\ resp[i].status = 422
    /\ resp[i].jsonOk
    /\ resp[i].body.message # "none"
    /\ resp[i].body.hasErrors

\* The inline messages for field f now in the container.
InlineMessages(f) ==
    {<<p, k>> \in Parents \X (1..Cardinality(Fields) * Cardinality(Calls)) :
        k <= Len(dom.feedback[p]) /\ dom.feedback[p][k][1] = f}

----------------------------------------------------------------------------
\* C1: once the request of an invocation has settled, on any path, the completion step
\* has cleared the button's disabled/loading state exactly once (when disableButton is
\* set and the selector names the button) and not before; the button is then enabled,
\* also when the complete callback threw.
C1_ButtonClearedOnce ==
    \A i \in Calls :
        /\ (pc[i] \in {"fetching", "decoding"}) => Count(log[i], ButtonCleared) = 0
        /\ Completed(i) =>
              IF settings[i].disableButton /\ settings[i].buttonSelector # ""
              THEN /\ Count(log[i], ButtonCleared) = 1
                   /\ ~dom.disabled /\ ~dom.indicator
              ELSE Count(log[i], ButtonCleared) = 0

\* a request settled, its complete callback threw, and the button had been disabled
C1_Witness ==
    /\ Completed("first")
    /\ settings["first"].complete = "throws"
    /\ unhandled["first"]
    /\ Count(log["first"], Ev("button", "loading", "")) = 1
    /\ Count(log["first"], ButtonCleared) = 1

\* C2: in every failure branch the error handler calls customErrorHandler when the
\* caller gave one, and otherwise the error callback when the caller gave one.
C2_ErrorCallbackInvoked ==
    \A i \in Calls :
        FailureOutcome(i) =>
            IF settings[i].customErrorHandler # "none"
            THEN Called(log[i], "customErrorHandler") = 1 /\ Called(log[i], "error") = 0
            ELSE /\ Called(log[i], "customErrorHandler") = 0
                 /\ settings[i].error # "none" => Called(log[i], "error") = 1

\* C3: a 422 with a message and an errors map shows exactly one summary notification
\* and, for each reported field with a matching input, exactly one inline message
\* carrying the first message of its list; other fields get none, and nothing is raised.
C3_ValidationRendered ==
    \A i \in Calls :
        ValidationOutcome(i) =>
            /\ KindCount(log[i], "toastr") = 1
            /\ Count(log[i], Ev("toastr", "error", resp[i].body.message)) = 1
            /\ ~unhandled[i] \/ settings[i].complete = "throws" \/ settings[i].customErrorHandler = "throws"
            /\ \A f \in Fields :
                  IF resp[i].body.errors[f] # <<>> /\ page.parentOf[f] # "none"
                  THEN /\ Cardinality(InlineMessages(f)) = 1
                       /\ \A pk \in InlineMessages(f) :
                             /\ pk[1] = page.parentOf[f]
                             /\ dom.feedback[pk[1]][pk[2]] = <<f, Head(resp[i].body.errors[f])>>
                       /\ f \in dom.invalid
                  ELSE InlineMessages(f) = {} /\ f \notin dom.invalid

----------------------------------------------------------------------------
\* Two invocations against the same container

Started(c) == {k \in DOMAIN order : order[k] = <<"start", c>>}
Settled(c) == {k \in DOMAIN order : order[k] = <<"settle", c>>}

\* b issued its request while a's request was pending
Overlap(a, b) ==
    \E ka \in Started(a), kb \in Started(b) :
        /\ ka < kb
        /\ \A ks \in Settled(a) : kb < ks

\* the invocation whose response settled last
LastSettled == order[Len(order)][2]

AllDone == \A c \in Calls : pc[c] = "done"

\* The container as the outcome of invocation i leaves it when i runs alone: the
\* annotations of its 422 body on a container cleared at its start, the button restored.
AloneDom(i) ==
    LET blank == [dom |-> InitDom, log |-> <<>>, timer |-> "none", err |-> NoErr, pending |-> FALSE,
                  failure |-> NoErr]
    IN IF version = "2.0.0" /\ resp[i].status = 422
       THEN validationCallback2(blank, resp[i]).dom
       ELSE InitDom

\* C4: two invocations on one container, the second started while the first was
\* pending: neither raises, and once both have fully settled the button state and the
\* inline annotations are those of the outcome of the response that settled last.
C4_LastSettledWins ==
    (AllDone /\ \E a, b \in Calls : a # b /\ Overlap(a, b)) =>
        /\ \A c \in Calls : ~unhandled[c]
        /\ dom.disabled = AloneDom(LastSettled).disabled
        /\ dom.indicator = AloneDom(LastSettled).indicator
        /\ dom.feedback = AloneDom(LastSettled).feedback
        /\ dom.invalid = AloneDom(LastSettled).invalid

----------------------------------------------------------------------------
\* The notification the error handler shows for a failure that carries no response.
ConnectivityNotification ==
    IF version = "2.0.0"
    THEN Ev("toastr", "error", "A network error occurred. Please check your connection and try again.")
    ELSE Ev("toastr", "error", "An error occurred. Please try again.")

\* C5: a request cancelled by its timer is handled as a transport failure: the error
\* handler shows the generic connectivity notification, once, and the 422 validation
\* path is not entered (no summary notification, no inline annotation, no body read).
C5_TimeoutIsTransportFailure ==
    \A i \in Calls :
        TimedOut(i) =>
            /\ pc[i] = "done"
            /\ aborted[i]
            /\ Count(log[i], ConnectivityNotification) = 1
            /\ KindCount(log[i], "toastr") = 1
            /\ KindCount(log[i], "annotate") = 0
            /\ dom.feedback = [p \in Parents |-> <<>>] /\ dom.invalid = {}

\* the timer fired while fetch was pending (no response had arrived)
C5_Witness ==
    /\ TimedOut("first")
    /\ resp["first"] = NoResp
    /\ Count(log["first"], ConnectivityNotification) = 1

\* C6: every failure reaches customErrorHandler or error only after the default
\* notification (and, for a 422, the inline annotations) has been rendered, and the
\* default notification is shown for every failure.
C6_UiBeforeCallback ==
    \A i \in Calls :
        FailureOutcome(i) =>
            /\ KindCount(log[i], "toastr") >= 1
            /\ (settings[i].customErrorHandler # "none" \/ settings[i].error # "none") =>
                  /\ Called(log[i], "customErrorHandler") + Called(log[i], "error") = 1
                  /\ \A u \in Positions(log[i], {"toastr", "annotate"}) :
                        \A k \in DOMAIN log[i] :
                            log[i][k] \in {Ev("call", "customErrorHandler", ""), Ev("call", "error", "")}
                                => u < k

\* C7: for each outcome the complete callback is invoked exactly once, after the timer
\* is cleared and only after the UI reactions of the outcome handler have been rendered.
C7_CompleteAfterUi ==
    \A i \in Calls :
        (pc[i] = "done" /\ settings[i].complete # "none") =>
            /\ Called(log[i], "complete") = 1
            /\ \A k \in DOMAIN log[i] :
                  log[i][k] = Ev("call", "complete", "") =>
                      /\ \E t \in Positions(log[i], {"clearTimeout"}) : t < k
                      /\ \A u \in Positions(log[i], {"toastr", "annotate", "navigate", "form"}) : u < k

\* C8: an invocation that issued its request scheduled exactly one timer, bound to its
\* own AbortController; once its completion step has run the timer is no longer armed,
\* and its request is aborted by no timer but its own.
C8_OneTimerPerRequest ==
    \A i \in Calls :
        /\ KindCount(log[i], "setTimeout") = (IF pc[i] \in {"idle", "unused", "raised"} THEN 0 ELSE 1)
        /\ timer[i] # "none" => signal[i] = i
        /\ Completed(i) => timer[i] \in {"cleared", "fired"}
        /\ timer[i] = "cleared" => Completed(i)
        /\ aborted[i] <=> timer[i] = "fired"

\* both requests were in flight, one was aborted by its timer and has completed while
\* the other is still pending with its timer armed
C8_Witness ==
    /\ timer["first"] = "fired" /\ pc["first"] = "done" /\ aborted["first"]
    /\ pc["second"] = "fetching" /\ timer["second"] = "armed" /\ ~aborted["second"]

----------------------------------------------------------------------------
\* The body of a 2xx response was decoded and handed to processResponse.
Decoded(i) ==
    /\ pc[i] = "done"
    /\ ~TimedOut(i)
    /\ Ok(resp[i])
    /\ \/ resp[i].ctype = "application/json" /\ resp[i].jsonOk
       \/ resp[i].ctype = "text/html"

\* ... and it is a success body (no truthy error field) with message and url fields.
DecodedWithMessageAndUrl(i) ==
    /\ Decoded(i)
    /\ resp[i].body.truthy
    /\ ~resp[i].body.error
    /\ resp[i].body.url # "none"
    /\ resp[i].body.message # "none"

SuccessToast(i) == Ev("toastr", "success", resp[i].body.message)

\* handleSuccess threw: formReset without a form element in the container
FormResetRaises(i) ==
    /\ resp[i].body.truthy /\ ~resp[i].body.error
    /\ settings[i].formReset /\ ~page.hasForm

\* C9 as stated: for a decoded success body with message and url, redirect enabled
\* navigates to the url and shows the success notification; redirect disabled shows
\* the notification and does not navigate.
C9_RedirectAndNotify ==
    \A i \in Calls :
        DecodedWithMessageAndUrl(i) =>
            /\ dom.location = (IF settings[i].redirect THEN resp[i].body.url ELSE "here")
            /\ Count(log[i], SuccessToast(i)) = 1

\* C9 as amended: for a decoded success body with message and url, redirect enabled
\* navigates to the url and redirect disabled never navigates; the success
\* notification is shown, once, exactly when showToastrMsg is enabled and formReset
\* did not raise for lack of a form element.
C9_RedirectAndNotifyAmended ==
    \A i \in Calls :
        DecodedWithMessageAndUrl(i) =>
            /\ dom.location = (IF settings[i].redirect THEN resp[i].body.url ELSE "here")
            /\ KindCount(log[i], "navigate") = (IF settings[i].redirect THEN 1 ELSE 0)
            /\ Count(log[i], SuccessToast(i)) =
                  (IF settings[i].showToastrMsg /\ ~FormResetRaises(i) THEN 1 ELSE 0)

\* redirect disabled: the notification is shown and the page stays
C9_Witness ==
    /\ DecodedWithMessageAndUrl("first")
    /\ ~settings["first"].redirect
    /\ dom.location = "here"
    /\ Count(log["first"], SuccessToast("first")) = 1

\* the positions in l of the success-UI steps: redirect, form reset, success notification
SuccessUi(l) ==
    {k \in DOMAIN l : l[k][1] \in {"navigate", "form"} \/ (l[k][1] = "toastr" /\ l[k][2] = "success")}

\* the caller's success callbacks, as processResponse is to call them
SuccessCallbackRule(i) ==
    /\ Called(log[i], "customSuccessHandler") = (IF settings[i].customSuccessHandler # "none" THEN 1 ELSE 0)
    /\ Called(log[i], "success") =
          (IF settings[i].customSuccessHandler = "none" /\ settings[i].success # "none" THEN 1 ELSE 0)

----------------------------------------------------------------------------
\* The server answered invocation i with a non-2xx status and the chain ran to its
\* completion step without the timer cutting it short.
NonOkOutcome(i) ==
    /\ Completed(i)
    /\ ~TimedOut(i)
    /\ resp[i] # NoResp
    /\ ~Ok(resp[i])

\* The HTTP status the error handed to handleError lets it read: error.status, or
\* error.response.status when the error carries the response (0: none).
StatusOf(error, r) == IF error.response THEN r.status ELSE error.status

\* C11: for every non-2xx response, also one whose body cannot be decoded, the error
\* handler is handed an HTTP failure carrying the response status and the decoded body
\* (never the decoder's own exception), and no rejection from the decoding is left
\* unhandled.
C11_HttpFailureDelivered ==
    \A i \in Calls :
        NonOkOutcome(i) =>
            /\ failure[i] # NoErr
            /\ failure[i].name # "SyntaxError"
            /\ StatusOf(failure[i], resp[i]) = resp[i].status
            /\ resp[i].jsonOk => failure[i].responseJson
            /\ unhandled[i] =>
                  settings[i].complete = "throws" \/ settings[i].customErrorHandler = "throws"

----------------------------------------------------------------------------
\* easyAjax has been called for invocation i.
Invoked(i) == pc[i] \notin {"unused", "idle"}

\* The request of i is to carry a body: its method is neither GET nor HEAD.
CarriesBody(i) == toUpperCase(settings[i].type) \notin {"GET", "HEAD"}

\* The call of easyAjax raised before its beforeSend hook, timer and network call:
\* nothing was called, no button disabled, no timer scheduled, no request issued, and
\* the error handler did not run.
RaisedAtOnce(i) ==
    /\ pc[i] = "raised"
    /\ log[i] = <<>>
    /\ timer[i] = "none"
    /\ request[i] = NoRequest
    /\ failure[i] = NoErr

\* C12: each fatal condition raises with no graceful fallback. A missing csrf-token
\* meta tag on a non-GET request and a missing form element with file upload raise
\* before beforeSend, the timer and the network call; a missing form element with
\* formReset raises on success; none of the raises is handed to the error handler.
C12_FatalConditionsRaise ==
    \A i \in Calls :
        /\ (Invoked(i) /\ ~page.csrfMeta /\ toUpperCase(settings[i].type) # "GET")
              => RaisedAtOnce(i)
        /\ (Invoked(i) /\ settings[i].file /\ CarriesBody(i) /\ ~page.hasForm)
              => RaisedAtOnce(i)
        /\ (Decoded(i) /\ FormResetRaises(i))
              => /\ failure[i] = NoErr
                 /\ KindCount(log[i], "toastr") = 0
                 /\ unhandled[i]

----------------------------------------------------------------------------
\* fetch was called for invocation i, with request[i].
Issued(i) == request[i] # NoRequest

\* GET and HEAD as callers write them
GetOrHead == {"GET", "get", "HEAD", "head"}

\* C13: a request whose type is GET or HEAD, in any letter case, is issued with a null
\* body (and no Content-Type header), whatever data and file the caller supplied.
C13_NoBodyOnGetHead ==
    \A i \in Calls :
        (Issued(i) /\ settings[i].type \in GetOrHead) =>
            /\ request[i].body = "null"
            /\ request[i].contentType = "none"
            /\ request[i].method = settings[i].type

\* a lower-case get carrying string data was issued without a body
C13_Witness ==
    /\ Issued("first")
    /\ settings["first"].type = "get"
    /\ settings["first"].data = "string"
    /\ request["first"].body = "null"

----------------------------------------------------------------------------
\* The documented default of each recognised option ("none": null or no value).
DocumentedDefaults ==
    [type |-> "GET", container |-> "document.body", disableButton |-> TRUE,
     buttonSelector |-> "[type='submit']", showToastrMsg |-> TRUE,
     toastrOptions |-> [closeButton |-> TRUE, timeOut |-> "3000"],
     redirect |-> TRUE, data |-> "object", file |-> FALSE, formReset |-> FALSE,
     timeout |-> 5000, customErrorHandler |-> "none", customSuccessHandler |-> "none",
     headers |-> "none", success |-> "none", error |-> "none", complete |-> "none",
     beforeSend |-> "defaultBeforeSend"]

\* C14 as stated: the resolved settings give every option the caller omitted its
\* documented default and every option the caller supplied exactly the caller's value
\* (a nested options object is taken whole); the caller's object is left as passed.
C14_SettingsMerge ==
    \A i \in Calls :
        Invoked(i) =>
            /\ DOMAIN settings[i] = DOMAIN DocumentedDefaults
            /\ \A k \in DOMAIN settings[i] :
                  settings[i][k] = IF k \in DOMAIN options[i].passed
                                   THEN options[i].passed[k]
                                   ELSE DocumentedDefaults[k]
            /\ options[i].after = options[i].passed

\* C14 as amended: the above, except that a beforeSend the caller supplied as a falsy
\* value (null) resolves to the default hook.
C14_SettingsMergeAmended ==
    \A i \in Calls :
        Invoked(i) =>
            /\ DOMAIN settings[i] = DOMAIN DocumentedDefaults
            /\ \A k \in DOMAIN settings[i] :
                  settings[i][k] =
                      IF k \in DOMAIN options[i].passed
                         /\ ~(k = "beforeSend" /\ options[i].passed[k] = "null")
                      THEN options[i].passed[k]
                      ELSE DocumentedDefaults[k]
            /\ options[i].after = options[i].passed

\* the caller supplied toastrOptions and a timeout and nothing else
C14_Witness ==
    /\ Invoked("first")
    /\ DOMAIN options["first"].passed = {"toastrOptions", "timeout"}
    /\ settings["first"].toastrOptions = [timeOut |-> "5000"]
    /\ settings["first"].timeout = 100
    /\ settings["first"].type = "GET"
    /\ settings["first"].customErrorHandler = "none"

----------------------------------------------------------------------------
\* The server answered invocation i with a 2xx status and the chain ran to its end
\* without the timer cutting it short.
OkOutcome(i) ==
    /\ pc[i] = "done"
    /\ ~TimedOut(i)
    /\ Ok(resp[i])

\* The success callback that processResponse calls for i throws.
SuccessCallbackThrows(i) ==
    \/ settings[i].customSuccessHandler = "throws"
    \/ settings[i].customSuccessHandler = "none" /\ settings[i].success = "throws"

\* C15: a 2xx response is classified by content-type. application/json gives the
\* decoded body and text/html the raw text (a string: no url, message or error field)
\* to the success path, the error handler staying out of it unless the success path
\* itself threw; any other content-type, a missing header included, gives an
\* unsupported-content-type failure that the error handler receives, and neither the
\* success handler nor a success callback runs.
C15_ContentTypeClassifier ==
    \A i \in Calls :
        OkOutcome(i) =>
            IF Decoded(i)
            THEN /\ failure[i] # NoErr => FormResetRaises(i) \/ SuccessCallbackThrows(i)
                 /\ resp[i].ctype = "text/html" =>
                       /\ KindCount(log[i], "navigate") = 0
                       /\ Count(log[i], Ev("toastr", "success", "Saved")) = 0
            ELSE IF resp[i].ctype = "application/json"
                 THEN failure[i].name = "SyntaxError"
                 ELSE /\ failure[i].name = "Unsupported"
                      /\ SuccessUi(log[i]) = {}
                      /\ Called(log[i], "customSuccessHandler") = 0
                      /\ Called(log[i], "success") = 0

----------------------------------------------------------------------------
ButtonLoading == Ev("button", "loading", "")

\* The hook of invocation i ran once: the caller's own and not the default, or, the
\* caller having given none, the default, which puts the button in its loading state
\* when disableButton is set and the selector names it.
HookRanOnce(i) ==
    IF settings[i].beforeSend # "defaultBeforeSend"
    THEN /\ Called(log[i], "beforeSend") = 1
         /\ Count(log[i], ButtonLoading) = 0
    ELSE /\ Called(log[i], "beforeSend") = 0
         /\ Count(log[i], ButtonLoading) =
               (IF settings[i].disableButton /\ settings[i].buttonSelector # "" THEN 1 ELSE 0)

\* Every step of the hook comes before the call of fetch, and while the request is
\* pending the button is as the hook left it.
HookBeforeFetch(i) ==
    /\ \A h \in DOMAIN log[i] :
          log[i][h] \in {Ev("call", "beforeSend", ""), ButtonLoading} =>
              \A k \in Positions(log[i], {"fetch"}) : h < k
    /\ pc[i] = "fetching" =>
          /\ KindCount(log[i], "fetch") = 1
          /\ dom.disabled = (Count(log[i], ButtonLoading) = 1)
          /\ dom.indicator = (Count(log[i], ButtonLoading) = 1)

\* C16 as stated: every invocation runs its beforeSend hook exactly once, before the
\* network call; the default hook disables the button and marks it loading (when
\* disableButton is set), and a hook the caller supplies runs instead of the default.
C16_BeforeSendOnce ==
    \A i \in Calls :
        Invoked(i) => HookRanOnce(i) /\ HookBeforeFetch(i)

\* C16 as amended: the above for every invocation that did not raise on a missing
\* csrf-token meta tag or a missing form for a file upload; one that did ran no hook.
C16_BeforeSendOnceAmended ==
    \A i \in Calls :
        Invoked(i) =>
            IF RaisedAtOnce(i)
            THEN Called(log[i], "beforeSend") = 0 /\ Count(log[i], ButtonLoading) = 0
            ELSE HookRanOnce(i) /\ HookBeforeFetch(i)

\* the caller's hook ran, the button was left alone and the request is pending
C16_Witness ==
    /\ pc["first"] = "fetching"
    /\ settings["first"].beforeSend = "fn"
    /\ settings["first"].disableButton
    /\ Called(log["first"], "beforeSend") = 1
    /\ ~dom.disabled

----------------------------------------------------------------------------
\* The caller of i passed a headers object that has an X-CSRF-TOKEN entry.
OverrideSupplied(i) ==
    /\ "headers" \in DOMAIN options[i].passed
    /\ options[i].passed.headers # "absent"

\* C17 as stated: every issued request carries an X-CSRF-TOKEN header: the caller's
\* override of that header when one was supplied, else the content of the csrf-token
\* meta tag.
C17_CsrfHeader ==
    \A i \in Calls :
        Issued(i) =>
            request[i].csrf = IF OverrideSupplied(i)
                              THEN options[i].passed.headers
                              ELSE "meta-token"

\* C17 as amended: the caller's override when it is a non-empty string, else the
\* content of the meta tag.
C17_CsrfHeaderAmended ==
    \A i \in Calls :
        Issued(i) =>
            request[i].csrf = IF OverrideSupplied(i) /\ options[i].passed.headers # ""
                              THEN options[i].passed.headers
                              ELSE "meta-token"

\* a request was issued with the caller's token in place of the page's
C17_Witness ==
    /\ Issued("first")
    /\ OverrideSupplied("first")
    /\ options["first"].passed.headers = "override-token"
    /\ request["first"].csrf = "override-token"
    /\ page.csrfMeta

----------------------------------------------------------------------------
NoAnnotations ==
    /\ dom.feedback = [p \in Parents |-> <<>>]
    /\ dom.invalid = {}

\* the invocation that issued its request last
LastStarted ==
    LET starts == {k \in DOMAIN order : order[k][1] = "start"}
    IN order[CHOOSE k \in starts : \A j \in starts : j <= k][2]

----------------------------------------------------------------------------
\* C19: the csrf-token meta tag is required only for requests that are not GET or HEAD:
\* a GET or HEAD invocation on a page without the tag does not raise and issues its
\* network call (unless the caller's own beforeSend hook throws).
C19_CsrfOnlyForNonIdempotent ==
    \A i \in Calls :
        (Invoked(i) /\ ~page.csrfMeta /\ settings[i].type \in GetOrHead
                    /\ settings[i].beforeSend # "throws") =>
            /\ pc[i] # "raised"
            /\ Issued(i)
            /\ KindCount(log[i], "fetch") = 1

----------------------------------------------------------------------------
\* processResponse started the success handler or a success callback of the caller.
SuccessSideStarted(i) ==
    /\ Decoded(i)
    /\ \/ resp[i].body.truthy /\ ~resp[i].body.error
       \/ Called(log[i], "customSuccessHandler") + Called(log[i], "success") > 0

\* handleError ran for invocation i.
ErrorSideRan(i) ==
    \/ failure[i] # NoErr
    \/ \E k \in DOMAIN log[i] : log[i][k][1] = "toastr" /\ log[i][k][2] = "error"
    \/ Called(log[i], "customErrorHandler") + Called(log[i], "error") > 0

\* C20: once the success handler or a success callback has started for the response of
\* an invocation, the error handler never runs for that invocation, also when the
\* success handler or the callback throws.
C20_SuccessXorFailure ==
    \A i \in Calls :
        SuccessSideStarted(i) => ~ErrorSideRan(i)

----------------------------------------------------------------------------
\* The request of invocation i is pending: fetch was called and the completion step of
\* its chain has not run.
Pending(i) == pc[i] \in {"fetching", "decoding"}

\* Invocation i disables the submit button through the default beforeSend hook.
DisablesButton(i) ==
    /\ settings[i].disableButton
    /\ settings[i].buttonSelector # ""
    /\ settings[i].beforeSend = "defaultBeforeSend"

\* C21: whenever an invocation with disableButton set and the default beforeSend is
\* pending against the container, the submit button is disabled and marked loading; it
\* is enabled again only when no such invocation remains pending.
C21_ButtonDisabledWhilePending ==
    (\E i \in Calls : Pending(i) /\ DisablesButton(i)) =>
        dom.disabled /\ dom.indicator

----------------------------------------------------------------------------
\* C22: a closed modal is out of the document, whenever it was closed; when it was
\* closed while its content fetch was pending, the settlement of the fetch injects
\* nothing, calls no onLoad, and raises nothing: the promise chain does not end
\* rejected.
C22_ModalClosedCleanly ==
    /\ hiddenAt # "none" => ~modalElement.attached
    /\ hiddenAt \in {"fetching", "reading"} =>
          /\ modalElement.content.kind = "emptied"
          /\ \A k \in DOMAIN modalLog : modalLog[k] \notin {"onLoad", "script", "modalFormLoaded"}
          /\ ~modalUnhandled

====
